---- MODULE Spec2Model ----
(***************************************************************************)
(* micrORM: the record gateway of src/src/microrm/models.py (BaseModel)    *)
(* over the driver of src/src/microrm/__init__.py (SQLiteDatabase).        *)
(*                                                                         *)
(* One declared record type (its descriptor is chosen at declaration and   *)
(* never changes), the database handles of the program, the table of the    *)
(* type on each handle, one live record instance, and a record of the      *)
(* latest gateway call (what it sent to the driver, what it returned   *)
(* or raised).                                                             *)
(*                                                                         *)
(* Scope: the type is declared with Meta.database bound to a handle, its   *)
(* descriptor is a valid one (the key, when set, is an INTEGER column      *)
(* named "id"; unique columns are declared fields), handles stay open.     *)
(***************************************************************************)
EXTENDS Integers, Sequences, FiniteSets, TLC

VARIABLES cfg, metaDb, clsDb, registered, tables, inst, registeredOn, last

vars == <<cfg, metaDb, clsDb, registered, tables, inst, registeredOn, last>>

(***************************************************************************)
(* Bounds of the model.                                                    *)
(***************************************************************************)
MaxRows == 3
MaxKey == 1

(***************************************************************************)
(* Python values.  A value is a pair <<type, payload>>.                    *)
(***************************************************************************)
Null == <<"null", 0>>
IntVal(n) == <<"int", n>>
StrVal(n) == <<"str", n>>
EnumVal(n) == <<"enum", n>>
ObjVal(n) == <<"object", n>>

NoPk == "<None>"
NoDb == "<None>"
Handles == {"db", "db2"}

\* Membership and position in a list.
Has(s, x) == \E i \in 1..Len(s) : s[i] = x

RECURSIVE SelectList(_, _, _)
SelectList(s, keep, i) ==
    IF i > Len(s) THEN <<>>
    ELSE IF keep[i] THEN <<s[i]>> \o SelectList(s, keep, i + 1)
    ELSE SelectList(s, keep, i + 1)

\* [x for x in s if x != drop]
Without(s, drop) == SelectList(s, [i \in 1..Len(s) |-> s[i] # drop], 1)

(***************************************************************************)
(* Record type descriptors: class Meta of a dataclass deriving BaseModel.  *)
(***************************************************************************)
TypeConfigs ==
    { [fields |-> <<"name", "email">>, pk |-> "id", unique |-> <<>>],
      [fields |-> <<"name", "email">>, pk |-> "id", unique |-> <<"name">>],
      [fields |-> <<"id", "name">>, pk |-> "id", unique |-> <<>>],
      [fields |-> <<"id", "name">>, pk |-> "id", unique |-> <<"name">>],
      [fields |-> <<"name", "email">>, pk |-> NoPk, unique |-> <<>>],
      [fields |-> <<"name", "email">>, pk |-> NoPk, unique |-> <<"name">>] }

_meta_pk(c) == c.pk

_meta_unique(c) == c.unique

\* The key is a surrogate: set, and not one of the declared fields.
IsSurrogate(c) == _meta_pk(c) # NoPk /\ ~Has(c.fields, _meta_pk(c))

\* Attributes an instance carries: the dataclass fields, and the surrogate
\* key once set (an absent attribute reads as None through getattr).
Attrs(c) == IF IsSurrogate(c) THEN c.fields \o <<_meta_pk(c)>> ELSE c.fields

\* Values a program gives to a field when it constructs an instance.
FieldValues(f) ==
    CASE f = "id" -> {Null} \cup {IntVal(k) : k \in 1..MaxKey}
      [] f = "name" -> {Null, StrVal(1), EnumVal(1)}
      [] OTHER -> {StrVal(1), ObjVal(1)}

AttrSet(c) == {Attrs(c)[i] : i \in 1..Len(Attrs(c))}

\* cls(**kwargs): the declared fields get their values, a surrogate key is
\* not a constructor parameter and starts unset.
Instances(c) ==
    { i \in [AttrSet(c) -> UNION {FieldValues(f) : f \in AttrSet(c)}] :
        \A f \in AttrSet(c) :
            IF Has(c.fields, f) THEN i[f] \in FieldValues(f) ELSE i[f] = Null }

(***************************************************************************)
(* The type's table on one handle, and the statements the gateway sends.   *)
(* A statement is kept structured: its kind, its column list, its bound    *)
(* parameters, its target columns (WHERE columns, ON CONFLICT columns or   *)
(* UNIQUE columns) and its LIMIT (0: none).                                *)
(***************************************************************************)
\* Columns of the table, in schema order: the surrogate key first.
TableCols(c) ==
    IF IsSurrogate(c) THEN <<_meta_pk(c)>> \o c.fields ELSE c.fields

EmptyTable == [created |-> FALSE, rows |-> <<>>]

Stmt(kind, cols, params, target, limit) ==
    [kind |-> kind, cols |-> cols, params |-> params, target |-> target,
     limit |-> limit]

\* sqlite3 binds None, int and str (among others); an Enum member or an
\* arbitrary object makes cursor.execute raise a sqlite3.Error.
Bindable(v) == v[1] \in {"null", "int", "str"}

\* SQL equality: NULL equals nothing, not even NULL.
SqlEq(a, b) == a # Null /\ b # Null /\ a = b

\* The rightmost position of x in s.
LastIndex(s, x) ==
    CHOOSE k \in 1..Len(s) : s[k] = x /\ \A j \in (k + 1)..Len(s) : s[j] # x

RECURSIVE MaxId(_, _, _)
MaxId(rows, pk, i) ==
    IF i > Len(rows) THEN 0
    ELSE LET m == MaxId(rows, pk, i + 1)
         IN  IF rows[i][pk][2] > m THEN rows[i][pk][2] ELSE m

\* sqlite3_last_insert_rowid of the connection (no row is ever deleted).
LastInsertRowid(c, rows) ==
    IF _meta_pk(c) = NoPk THEN Len(rows) ELSE MaxId(rows, _meta_pk(c), 1)

\* Two rows collide on the UNIQUE constraint: every constrained column is
\* equal and none is NULL.
UniqueClash(c, r1, r2) ==
    /\ c.unique # <<>>
    /\ \A k \in 1..Len(c.unique) : SqlEq(r1[c.unique[k]], r2[c.unique[k]])

\* The table with `new` added, rows kept in rowid order.
AddRow(c, rows, new) ==
    IF _meta_pk(c) = NoPk THEN Append(rows, new)
    ELSE LET pk == _meta_pk(c)
         IN  SelectList(rows, [i \in 1..Len(rows) |-> rows[i][pk][2] < new[pk][2]], 1)
             \o <<new>> \o
             SelectList(rows, [i \in 1..Len(rows) |-> rows[i][pk][2] > new[pk][2]], 1)

Failure(tbl) == [error |-> TRUE, rowcount |-> -1, lastrowid |-> Null, tbl |-> tbl]

Done(tbl, rowcount, lastrowid) ==
    [error |-> FALSE, rowcount |-> rowcount, lastrowid |-> lastrowid, tbl |-> tbl]

ColsKnown(c, cols) == \A k \in 1..Len(cols) : Has(TableCols(c), cols[k])

ExecCreate(c, tbl, st) ==
    Done([tbl EXCEPT !.created = TRUE], -1,
         IntVal(LastInsertRowid(c, tbl.rows)))

\* INSERT INTO t (cols) VALUES (?...) [ON CONFLICT(target) DO NOTHING]
ExecInsert(c, tbl, st) ==
    LET pk == _meta_pk(c)
        given(col) == IF Has(st.cols, col)
                      THEN st.params[LastIndex(st.cols, col)] ELSE Null
        auto == IntVal(LastInsertRowid(c, tbl.rows) + 1)
        new == [col \in {TableCols(c)[k] : k \in 1..Len(TableCols(c))} |->
                  IF col = pk /\ given(col) = Null THEN auto ELSE given(col)]
        pkClash == pk # NoPk /\ \E i \in 1..Len(tbl.rows) : tbl.rows[i][pk] = new[pk]
        uqClash == \E i \in 1..Len(tbl.rows) : UniqueClash(c, tbl.rows[i], new)
        onUnique == st.kind = "UPSERT" /\ st.target = c.unique /\ c.unique # <<>>
        onPk == st.kind = "UPSERT" /\ pk # NoPk /\ st.target = <<pk>>
        ignored == Done(tbl, 0, IntVal(LastInsertRowid(c, tbl.rows)))
    IN  IF st.kind = "UPSERT" /\ ~onUnique /\ ~onPk THEN Failure(tbl)
        ELSE IF pk # NoPk /\ new[pk][1] # "int" THEN Failure(tbl)
        ELSE IF uqClash THEN (IF onUnique THEN ignored ELSE Failure(tbl))
        ELSE IF pkClash THEN (IF onPk THEN ignored ELSE Failure(tbl))
        ELSE Done([tbl EXCEPT !.rows = AddRow(c, tbl.rows, new)], 1,
                  IF pk = NoPk THEN IntVal(Len(tbl.rows) + 1) ELSE new[pk])

\* UPDATE t SET cols=? WHERE target=?   (the last parameter is the key)
ExecUpdate(c, tbl, st) ==
    LET pk == _meta_pk(c)
        n == Len(st.cols)
        key == st.params[n + 1]
        hit(i) == SqlEq(tbl.rows[i][st.target[1]], key)
        set(r) == [col \in DOMAIN r |->
                     IF Has(st.cols, col)
                     THEN st.params[LastIndex(st.cols, col)] ELSE r[col]]
        rows2 == [i \in 1..Len(tbl.rows) |->
                     IF hit(i) THEN set(tbl.rows[i]) ELSE tbl.rows[i]]
        hits == {i \in 1..Len(tbl.rows) : hit(i)}
        clash == \E i \in hits : \E j \in 1..Len(rows2) :
                    /\ j # i
                    /\ \/ UniqueClash(c, rows2[i], rows2[j])
                       \/ pk # NoPk /\ rows2[i][pk] = rows2[j][pk]
        badKey == pk # NoPk /\ \E i \in hits : rows2[i][pk][1] # "int"
    IN  IF n = 0 \/ clash \/ badKey THEN Failure(tbl)
        ELSE Done([tbl EXCEPT !.rows = rows2], Cardinality(hits),
                  IntVal(LastInsertRowid(c, tbl.rows)))

\* cursor.execute(query, params) followed by commit: the new table, or an
\* sqlite3.Error that leaves the table as it was.
SqliteExecute(c, tbl, st) ==
    IF st.kind = "CREATE" THEN ExecCreate(c, tbl, st)
    ELSE IF \/ ~tbl.created
            \/ ~ColsKnown(c, st.cols) \/ ~ColsKnown(c, st.target)
            \/ \E k \in 1..Len(st.params) : ~Bindable(st.params[k])
         THEN Failure(tbl)
    ELSE IF st.kind \in {"INSERT", "UPSERT"} THEN ExecInsert(c, tbl, st)
    ELSE IF st.kind = "UPDATE" THEN ExecUpdate(c, tbl, st)
    ELSE Failure(tbl)

\* (ok, rowcount, lastrowid) of a finished cursor.execute, with the table.
DriverResult(r) ==
    [ok |-> ~r.error, rowcount |-> r.rowcount, lastrowid |-> r.lastrowid,
     tbl |-> r.tbl]

\* SQLiteDatabase.execute_query: an sqlite3.Error is printed and reported
\* as ok = False.
execute_query(c, tbl, st) == DriverResult(SqliteExecute(c, tbl, st))

\* The rows a SELECT reads, as tuples in the order of its column list.
RowMatches(r, st) ==
    \A k \in 1..Len(st.target) : SqlEq(r[st.target[k]], st.params[k])

Limited(rows, limit) ==
    IF limit > 0 /\ Len(rows) > limit THEN SubSeq(rows, 1, limit) ELSE rows

Project(rows, cols) ==
    [i \in 1..Len(rows) |-> [k \in 1..Len(cols) |-> rows[i][cols[k]]]]

SelectRows(c, tbl, st) ==
    Project(Limited(SelectList(tbl.rows,
                        [i \in 1..Len(tbl.rows) |-> RowMatches(tbl.rows[i], st)], 1),
                    st.limit),
            st.cols)

\* SQLiteDatabase.fetch_all: the rows, or [] after an sqlite3.Error.
fetch_all(c, tbl, st) ==
    IF \/ ~tbl.created
       \/ ~ColsKnown(c, st.cols) \/ ~ColsKnown(c, st.target)
       \/ \E k \in 1..Len(st.params) : ~Bindable(st.params[k])
    THEN <<>>
    ELSE SelectRows(c, tbl, st)

(***************************************************************************)
(* BaseModel: the gateway.  A dict is a list of <<key, value>> pairs, in   *)
(* insertion order.                                                        *)
(***************************************************************************)
Keys(d) == [k \in 1..Len(d) |-> d[k][1]]

Values(d) == [k \in 1..Len(d) |-> d[k][2]]

HasKey(d, name) == \E k \in 1..Len(d) : d[k][1] = name

\* d[name] for a key that is present.
Item(d, name) == d[CHOOSE k \in 1..Len(d) : d[k][1] = name][2]

\* d.get(name): None when absent.
DictGet(d, name) == IF HasKey(d, name) THEN Item(d, name) ELSE Null

\* v.value if isinstance(v, Enum) else v
DbValue(v) == IF v[1] = "enum" THEN StrVal(v[2]) ELSE v

FieldItems(c, i) ==
    [k \in 1..Len(c.fields) |-> <<c.fields[k], DbValue(i[c.fields[k]])>>]

_as_db_dict(c, i) ==
    IF IsSurrogate(c)
    THEN Append(FieldItems(c, i), <<_meta_pk(c), i[_meta_pk(c)]>>)
    ELSE FieldItems(c, i)

\* Meta.database, when set and different from cls._db, rebinds the type and
\* clears its registered flag.
_meta_database(meta, db, reg) ==
    IF meta # NoDb /\ meta # db
    THEN [db |-> meta, registered |-> FALSE]
    ELSE [db |-> db, registered |-> reg]

CreateStmt(c) == Stmt("CREATE", TableCols(c), <<>>, _meta_unique(c), 0)

\* db._register_model(cls): the registrar sends the DDL of the type's table.
_register_model(c, tbl) == execute_query(c, tbl, CreateStmt(c)).tbl

\* What the registration step of a call did: the handle the type is bound
\* to, the flag, the tables, the DDL sent, whether the registrar ran.
Ensured(raised, b, reg, tbls, stmts, called) ==
    [raised |-> raised, db |-> b.db, registered |-> reg, tables |-> tbls,
     stmts |-> stmts, called |-> called]

EnsureBound(c, b, tbls) ==
    IF b.db = NoDb
    THEN Ensured("RuntimeError", b, b.registered, tbls, <<>>, FALSE)
    ELSE IF ~b.registered
    THEN Ensured("none", b, TRUE,
                 [tbls EXCEPT ![b.db] = _register_model(c, tbls[b.db])],
                 <<CreateStmt(c)>>, TRUE)
    ELSE Ensured("none", b, b.registered, tbls, <<>>, FALSE)

_ensure_registered(c, meta, db, reg, tbls) ==
    EnsureBound(c, _meta_database(meta, db, reg), tbls)

\* update_fields: a list of names, or None.
NotGiven == [given |-> FALSE, cols |-> <<>>]
Given(cols) == [given |-> TRUE, cols |-> cols]

\* save() with the unique constraint looked at before the key.
save_path_unique_first(pk, unique_columns, data) ==
    IF unique_columns # <<>> THEN "upsert"
    ELSE IF pk # NoPk /\ DictGet(data, pk) # Null THEN "update"
    ELSE "insert"

\* Which of the three statements save() builds.
save_path(pk, unique_columns, data) ==
    IF pk # NoPk /\ DictGet(data, pk) # Null THEN "update"
    ELSE IF unique_columns # <<>> THEN "upsert"
    ELSE "insert"

\* cols = update_fields or [c for c in data if c != primary_key]
update_cols(update_fields, data, pk) ==
    IF update_fields.given /\ update_fields.cols # <<>>
    THEN update_fields.cols
    ELSE Without(Keys(data), pk)

\* params = tuple(data[c] for c in cols) + (data[primary_key],)
update_params(cols, data, pk) ==
    [k \in 1..Len(cols) |-> Item(data, cols[k])] \o <<Item(data, pk)>>

UpdateStmt(cols, data, pk) ==
    Stmt("UPDATE", cols, update_params(cols, data, pk), <<pk>>, 0)

\* The upsert without its ON CONFLICT clause.
UpsertStmt_no_conflict_clause(data, unique_columns) ==
    Stmt("INSERT", Keys(data), Values(data), <<>>, 0)

UpsertStmt(data, unique_columns) ==
    Stmt("UPSERT", Keys(data), Values(data), unique_columns, 0)

InsertCols(data, pk) == Without(Keys(data), pk)

InsertParams(cols, data) == [k \in 1..Len(cols) |-> Item(data, cols[k])]

InsertStmt(data, pk) ==
    Stmt("INSERT", InsertCols(data, pk), InsertParams(InsertCols(data, pk), data),
         <<>>, 0)

\* The plain insert without its setattr.
inserted_key_not_set(ok, pk, last_id, old) == old

\* if ok and primary_key: setattr(self, primary_key, last_id)
inserted_key(ok, pk, last_id, old) ==
    IF ok /\ pk # NoPk THEN last_id ELSE old

NoResult == [ok |-> FALSE, rowcount |-> 0, lastrowid |-> Null]

Triple(r) == [ok |-> r.ok, rowcount |-> r.rowcount, lastrowid |-> r.lastrowid]

\* The outcome of save(): what was raised, the path taken, the statement
\* sent, the driver's answer, the table and the instance afterwards.
Saved(raised, path, stmts, drv, tbl, i) ==
    [raised |-> raised, path |-> path, stmts |-> stmts, drv |-> drv,
     tbl |-> tbl, inst |-> i]

\* The end of save(): only a plain insert touches the instance.
SaveReturn(c, i, path, st, r) ==
    Saved("none", path, <<st>>, Triple(r), r.tbl,
          IF path = "insert" /\ _meta_pk(c) # NoPk
          THEN [i EXCEPT ![_meta_pk(c)] =
                    inserted_key(r.ok, _meta_pk(c), r.lastrowid, i[_meta_pk(c)])]
          ELSE i)

SaveSend(c, i, tbl, path, st) ==
    SaveReturn(c, i, path, st, execute_query(c, tbl, st))

\* The three branches of save(); data[c] of an unknown update field raises
\* KeyError before anything is sent.
SaveBranch(c, i, tbl, data, path, cols) ==
    IF path = "update"
    THEN IF \E k \in 1..Len(cols) : ~HasKey(data, cols[k])
         THEN Saved("KeyError", path, <<>>, NoResult, tbl, i)
         ELSE SaveSend(c, i, tbl, path, UpdateStmt(cols, data, _meta_pk(c)))
    ELSE IF path = "upsert"
    THEN SaveSend(c, i, tbl, path, UpsertStmt(data, _meta_unique(c)))
    ELSE SaveSend(c, i, tbl, path, InsertStmt(data, _meta_pk(c)))

SaveData(c, i, update_fields, tbl, data) ==
    SaveBranch(c, i, tbl, data,
               save_path(_meta_pk(c), _meta_unique(c), data),
               update_cols(update_fields, data, _meta_pk(c)))

\* BaseModel.save on instance i, after the registration step e.
save(c, i, update_fields, e) ==
    SaveData(c, i, update_fields, e.tables[e.db], _as_db_dict(c, i))

\* Read path.
model_field_names(c) == c.fields

select_columns(c) ==
    IF _meta_pk(c) # NoPk /\ ~Has(model_field_names(c), _meta_pk(c))
    THEN <<_meta_pk(c)>> \o model_field_names(c)
    ELSE model_field_names(c)

\* name not in valid_filter_fields
UnknownFilter(c, name) ==
    ~(Has(model_field_names(c), name)
      \/ (_meta_pk(c) # NoPk /\ name = _meta_pk(c)))

\* unknown_filters = [name for name in filters if name not in valid_filter_fields]
unknown_filters(c, filters) ==
    SelectList(Keys(filters),
               [k \in 1..Len(filters) |-> UnknownFilter(c, filters[k][1])], 1)

\* dict(zip(select_columns, row))
Zip(columns, row) == [k \in 1..Len(columns) |-> <<columns[k], row[k]>>]

\* The constructor on the declared fields, then setattr of a surrogate key.
FromRowData(c, row_data, field_names) ==
    [a \in AttrSet(c) |->
        IF Has(field_names, a) THEN Item(row_data, a)
        ELSE IF _meta_pk(c) # NoPk /\ ~Has(field_names, _meta_pk(c)) /\ a = _meta_pk(c)
        THEN Item(row_data, _meta_pk(c))
        ELSE Null]

_build_model_instance_from_row(c, row, columns, field_names) ==
    FromRowData(c, Zip(columns, row), field_names)

SelectStmt(c, filters, limit) ==
    Stmt("SELECT", select_columns(c), Values(filters), Keys(filters), limit)

Hydrate(c, rows) ==
    [k \in 1..Len(rows) |->
        _build_model_instance_from_row(c, rows[k], select_columns(c),
                                       model_field_names(c))]

\* BaseModel._query after the registration step e.
_query(c, filters, limit, e) ==
    IF unknown_filters(c, filters) # <<>>
    THEN [raised |-> "ValueError", stmts |-> <<>>, ret |-> <<>>]
    ELSE [raised |-> "none", stmts |-> <<SelectStmt(c, filters, limit)>>,
          ret |-> Hydrate(c, fetch_all(c, e.tables[e.db],
                                       SelectStmt(c, filters, limit)))]

\* The LIMIT get() puts on its query.
GetLimit == 2

\* get() that returns the first of several matches.
get_outcome_first_match(matches, raise_if_not_found) ==
    IF Len(matches) = 0
    THEN (IF raise_if_not_found
          THEN [raised |-> "DoesNotExist", ret |-> <<>>]
          ELSE [raised |-> "none", ret |-> <<>>])
    ELSE [raised |-> "none", ret |-> <<matches[1]>>]

\* What get() makes of the matches its query returned.
get_outcome(matches, raise_if_not_found) ==
    IF Len(matches) = 0
    THEN (IF raise_if_not_found
          THEN [raised |-> "DoesNotExist", ret |-> <<>>]
          ELSE [raised |-> "none", ret |-> <<>>])
    ELSE IF Len(matches) > 1
    THEN [raised |-> "MultipleObjectsReturned", ret |-> <<>>]
    ELSE [raised |-> "none", ret |-> <<matches[1]>>]

(***************************************************************************)
(* The program.                                                            *)
(***************************************************************************)
\* The latest gateway call: its inputs (`key`: the key value of the instance
\* save() was called on, as the call found it), what it sent to the driver,
\* the driver's answer to a save, the instance save() was called on as the
\* call left it (`self`), what the call returned (`ret`: the instance save()
\* returns, the list filter() returns, the instance get() returns or nothing
\* for None) or raised.
\* `before` is the table of the handle the call ran on, as the call found
\* it; `known` tells whether the registrar had already run for that handle.
Call(op, path, raised, stmts, drv, key, self, ret, before, handle, update_fields, filters, raise_if_not_found, called, known) ==
    [op |-> op, path |-> path, raised |-> raised, stmts |-> stmts, drv |-> drv,
     key |-> key, self |-> self, ret |-> ret, before |-> before, handle |-> handle,
     update_fields |-> update_fields, filters |-> filters,
     raise_if_not_found |-> raise_if_not_found, called |-> called,
     known |-> known]

\* getattr(self, primary_key, None) of an instance.
KeyOf(c, i) == IF _meta_pk(c) # NoPk THEN i[_meta_pk(c)] ELSE Null

TotalRows(tbls) == Len(tbls["db"].rows) + Len(tbls["db2"].rows)

\* The inputs of the calls.
UpdateFieldInputs ==
    {NotGiven, Given(<<>>), Given(<<"name">>), Given(<<"bogus">>)}

FilterInputs ==
    { << <<"name", StrVal(1)>> >>,
      << <<"bogus", StrVal(1)>> >> }

\* get() is also called with no criterion, and with the key of the instance.
GetInputs(c, i) ==
    { <<>>,
      << <<"name", StrVal(1)>> >>,
      << <<"name", StrVal(1)>>, <<"email", StrVal(1)>> >> }
    \cup (IF _meta_pk(c) # NoPk THEN { << <<_meta_pk(c), i[_meta_pk(c)]>> >> } ELSE {})

Init ==
    /\ cfg \in TypeConfigs
    /\ metaDb = "db"
    /\ clsDb = metaDb
    /\ registered = FALSE
    /\ tables = [h \in Handles |-> EmptyTable]
    /\ inst \in Instances(cfg)
    /\ registeredOn = {}
    /\ last = Call("none", "none", "none", <<>>, NoResult, Null, <<>>, <<>>, <<>>, NoDb,
                   NotGiven, <<>>, FALSE, FALSE, FALSE)

\* The program constructs another instance.
Construct ==
    /\ \E i \in Instances(cfg) : i # inst /\ inst' = i
    /\ UNCHANGED <<cfg, metaDb, clsDb, registered, tables, registeredOn, last>>

\* The program assigns another handle to Meta.database.
Rebind ==
    /\ \E d \in Handles : d # metaDb /\ metaDb' = d
    /\ UNCHANGED <<cfg, clsDb, registered, tables, inst, registeredOn, last>>

Registration(e) ==
    /\ clsDb' = e.db
    /\ registered' = e.registered
    /\ registeredOn' = IF e.called THEN registeredOn \cup {e.db} ELSE registeredOn

SaveDone(update_fields, e, r) ==
    /\ tables' = [e.tables EXCEPT ![e.db] = r.tbl]
    /\ inst' = r.inst
    /\ last' = Call("save", r.path, r.raised, e.stmts \o r.stmts, r.drv,
                    KeyOf(cfg, inst), <<r.inst>>,
                    IF r.raised = "none" THEN <<r.inst>> ELSE <<>>,
                    tables[e.db].rows, e.db, update_fields, <<>>, FALSE,
                    e.called, e.db \in registeredOn)

SaveCall(update_fields, e) ==
    /\ Registration(e)
    /\ IF e.raised # "none"
       THEN /\ tables' = e.tables
            /\ inst' = inst
            /\ last' = Call("save", "none", e.raised, e.stmts, NoResult,
                            KeyOf(cfg, inst), <<inst>>, <<>>, <<>>, e.db, update_fields, <<>>, FALSE, e.called,
                            e.db \in registeredOn)
       ELSE SaveDone(update_fields, e, save(cfg, inst, update_fields, e))
    /\ TotalRows(tables') <= MaxRows
    /\ UNCHANGED <<cfg, metaDb>>

Save ==
    \E update_fields \in UpdateFieldInputs :
        SaveCall(update_fields,
                 _ensure_registered(cfg, metaDb, clsDb, registered, tables))

ReadDone(op, filters, raise_if_not_found, e, g) ==
    last' = Call(op, "none", g.raised, e.stmts \o g.stmts, NoResult, Null, <<>>, g.ret,
                 tables[e.db].rows, e.db, NotGiven, filters, raise_if_not_found,
                 e.called, e.db \in registeredOn)

\* get() on the result of its query; filter() and all() return it as it is.
Outcome(op, q, raise_if_not_found) ==
    IF op = "get" /\ q.raised = "none"
    THEN [raised |-> get_outcome(q.ret, raise_if_not_found).raised,
          ret |-> get_outcome(q.ret, raise_if_not_found).ret, stmts |-> q.stmts]
    ELSE q

ReadCall(op, filters, limit, raise_if_not_found, e) ==
    /\ Registration(e)
    /\ tables' = e.tables
    /\ IF e.raised # "none"
       THEN last' = Call(op, "none", e.raised, e.stmts, NoResult, Null, <<>>, <<>>, <<>>,
                         e.db, NotGiven, filters, raise_if_not_found, e.called,
                         e.db \in registeredOn)
       ELSE ReadDone(op, filters, raise_if_not_found, e,
                     Outcome(op, _query(cfg, filters, limit, e), raise_if_not_found))
    /\ UNCHANGED <<cfg, metaDb, inst>>

\* filter(**filters), all() and get(raise_if_not_found, **filters).
Read(op, filters, limit, raise_if_not_found) ==
    ReadCall(op, filters, limit, raise_if_not_found,
             _ensure_registered(cfg, metaDb, clsDb, registered, tables))

Filter ==
    \E filters \in FilterInputs : Read("filter", filters, 0, FALSE)

All == Read("all", <<>>, 0, FALSE)

Get ==
    \E filters \in GetInputs(cfg, inst), raise_if_not_found \in BOOLEAN :
        IF filters = <<>>
        THEN /\ last' = Call("get", "none", "ValueError", <<>>, NoResult, Null, <<>>,
                             <<>>, <<>>, NoDb, NotGiven, filters, raise_if_not_found,
                             FALSE, FALSE)
             /\ UNCHANGED <<cfg, metaDb, clsDb, registered, tables, inst,
                            registeredOn>>
        ELSE Read("get", filters, GetLimit, raise_if_not_found)

\* A program that leaves the type bound to the handle of its declaration.
Next == Construct \/ Save \/ Filter \/ All \/ Get

Spec == Init /\ [][Next]_vars

\* A program that keeps one instance and also rebinds the type between its
\* calls.
NextRebind == Save \/ Filter \/ All \/ Get \/ Rebind

InitRebind == Init /\ IsSurrogate(cfg) /\ cfg.unique = <<>>

SpecRebind == InitRebind /\ [][NextRebind]_vars

(***************************************************************************)
(* Properties.                                                             *)
(***************************************************************************)
\* How many of the statements of the latest call are of one of the kinds.
Sent(kinds) ==
    Cardinality({k \in 1..Len(last.stmts) : last.stmts[k].kind \in kinds})

\* The statement of one of the kinds that the latest call sent.
TheStmt(kinds) ==
    last.stmts[CHOOSE k \in 1..Len(last.stmts) : last.stmts[k].kind \in kinds]

\* The table the latest call ran on, as it is now.
RowsNow == tables[last.handle].rows

\* save() was called on an instance whose key was set.
SavedWithKey == last.op = "save" /\ _meta_pk(cfg) # NoPk /\ last.key # Null

\* update_fields named something that is no attribute of the instance.
UnknownUpdateField ==
    \E k \in 1..Len(last.update_fields.cols) :
        last.update_fields.cols[k] \notin AttrSet(cfg)

\* C1 (as stated): save() on an instance whose key is set sends exactly one
\* UPDATE ... WHERE <pk>=? and no INSERT, whatever update_fields is.
C1_UpdateWhateverUpdateFields ==
    SavedWithKey =>
        /\ Sent({"UPDATE"}) = 1
        /\ Sent({"INSERT", "UPSERT"}) = 0
        /\ TheStmt({"UPDATE"}).target = <<_meta_pk(cfg)>>

\* C1 (amended): save() on an instance whose key is set never sends an
\* INSERT; it sends exactly one UPDATE ... WHERE <pk>=? bound to the key
\* unless update_fields names something that is no column of the instance,
\* and then it raises KeyError and sends no UPDATE either.
C1_UpdateNeverInsert ==
    SavedWithKey =>
        /\ Sent({"INSERT", "UPSERT"}) = 0
        /\ IF UnknownUpdateField
           THEN last.raised = "KeyError" /\ Sent({"UPDATE"}) = 0
           ELSE /\ last.raised = "none"
                /\ Sent({"UPDATE"}) = 1
                /\ TheStmt({"UPDATE"}).target = <<_meta_pk(cfg)>>
                /\ LET st == TheStmt({"UPDATE"})
                   IN  st.params[Len(st.params)] = last.key

\* An update by key on a type that also has a unique constraint, with
\* update_fields given, that changed a row.
C1_Witness ==
    /\ SavedWithKey
    /\ _meta_unique(cfg) # <<>>
    /\ last.update_fields = Given(<<"name">>)
    /\ Sent({"UPDATE"}) = 1
    /\ last.drv.ok /\ last.drv.rowcount = 1
    /\ RowsNow # last.before

\* save() took a type with a surrogate key and a unique constraint, on an
\* instance whose key was unset.
SavedUnique ==
    /\ last.op = "save"
    /\ IsSurrogate(cfg)
    /\ _meta_unique(cfg) # <<>>
    /\ last.key = Null

\* The value the instance of the latest save() holds for a column.
SelfValue(col) == DbValue(last.self[1][col])

\* The row has the unique-column values of the instance.
SameUniqueValues(row) ==
    \A k \in 1..Len(_meta_unique(cfg)) :
        row[_meta_unique(cfg)[k]] = SelfValue(_meta_unique(cfg)[k])

\* An earlier save() left a row with the unique-column values of this one.
SecondSaveOfUniqueValues ==
    /\ SavedUnique
    /\ \E i \in 1..Len(last.before) : SameUniqueValues(last.before[i])

UniqueValuesNotNull ==
    \A k \in 1..Len(_meta_unique(cfg)) : SelfValue(_meta_unique(cfg)[k]) # Null

\* What C2 says of the second save(): no error, one INSERT ... ON
\* CONFLICT(<unique cols>) DO NOTHING, the table as it was, one row with
\* those unique values.
SecondSaveIgnored ==
    /\ last.raised = "none"
    /\ Sent({"UPSERT"}) = 1
    /\ Sent({"INSERT", "UPDATE"}) = 0
    /\ TheStmt({"UPSERT"}).target = _meta_unique(cfg)
    /\ RowsNow = last.before
    /\ Cardinality({i \in 1..Len(RowsNow) : SameUniqueValues(RowsNow[i])}) = 1

\* C2 (as stated): with a surrogate key and a unique constraint, a second
\* save() of the same unique-column values raises nothing, goes through
\* INSERT ... ON CONFLICT DO NOTHING, leaves the existing row untouched and
\* leaves exactly one row with those values.
C2_SecondSaveOneRow == SecondSaveOfUniqueValues => SecondSaveIgnored

\* C2 (amended): the same, for unique-column values none of which is null.
C2_SecondSaveOneRowNotNull ==
    (SecondSaveOfUniqueValues /\ UniqueValuesNotNull) => SecondSaveIgnored

\* A second save() of the same non-null unique values, which the driver
\* executed and ignored.
C2_Witness ==
    /\ SecondSaveOfUniqueValues
    /\ UniqueValuesNotNull
    /\ last.drv.ok /\ last.drv.rowcount = 0
    /\ Len(RowsNow) = 2

\* save() took a type with a surrogate key and no unique constraint, on an
\* instance whose key was unset.
SavedPlain ==
    /\ last.op = "save"
    /\ IsSurrogate(cfg)
    /\ _meta_unique(cfg) = <<>>
    /\ last.key = Null

\* C3: with a surrogate key and no unique constraint, save() on an instance
\* whose key is unset sends one plain INSERT without the key column and does
\* not raise; afterwards the key of the instance is the driver's lastrowid
\* if the driver reported success, and is still unset if it reported failure.
C3_PlainInsertSetsKey ==
    SavedPlain =>
        /\ last.raised = "none"
        /\ last.ret = last.self
        /\ Sent({"INSERT"}) = 1
        /\ Sent({"UPSERT", "UPDATE"}) = 0
        /\ ~Has(TheStmt({"INSERT"}).cols, _meta_pk(cfg))
        /\ IF last.drv.ok
           THEN /\ last.drv.lastrowid # Null
                /\ last.self[1][_meta_pk(cfg)] = last.drv.lastrowid
           ELSE last.self[1][_meta_pk(cfg)] = Null

\* The second successful plain insert: the instance holds key 2.
C3_Witness ==
    /\ SavedPlain
    /\ last.drv.ok
    /\ last.self[1][_meta_pk(cfg)] = IntVal(2)

\* A plain insert the driver refused: the key is still unset.
C3_WitnessFailure ==
    /\ SavedPlain
    /\ ~last.drv.ok
    /\ last.self[1][_meta_pk(cfg)] = Null

\* get() was called with criteria, all of them on declared fields or the key.
GotWithCriteria ==
    /\ last.op = "get"
    /\ last.filters # <<>>
    /\ \A k \in 1..Len(last.filters) :
          \/ Has(cfg.fields, last.filters[k][1])
          \/ (_meta_pk(cfg) # NoPk /\ last.filters[k][1] = _meta_pk(cfg))

\* The rows of the table that match every criterion of the latest call.
Matching ==
    {i \in 1..Len(last.before) :
        \A k \in 1..Len(last.filters) :
            SqlEq(last.before[i][last.filters[k][1]], last.filters[k][2])}

\* The instance is the row, attribute by attribute.
IsRow(i, row) == \A a \in AttrSet(cfg) : i[a] = row[a]

\* C4: what get() does depends only on the number of rows that match all
\* its criteria: with none it returns None, or raises DoesNotExist when
\* raise_if_not_found is set; with one it returns that row as an instance;
\* with two or more it raises MultipleObjectsReturned.
C4_GetByMatchCount ==
    GotWithCriteria =>
        /\ Cardinality(Matching) = 0 =>
              /\ last.ret = <<>>
              /\ last.raised = IF last.raise_if_not_found THEN "DoesNotExist"
                               ELSE "none"
        /\ Cardinality(Matching) = 1 =>
              /\ last.raised = "none"
              /\ Len(last.ret) = 1
              /\ \A i \in Matching : IsRow(last.ret[1], last.before[i])
        /\ Cardinality(Matching) >= 2 =>
              /\ last.raised = "MultipleObjectsReturned"
              /\ last.ret = <<>>

\* get() with three matching rows.
C4_Witness ==
    /\ GotWithCriteria
    /\ Cardinality(Matching) = 3
    /\ last.raised = "MultipleObjectsReturned"

\* C5: filter() with a criterion that is neither a declared field nor the
\* key raises ValueError before any statement is sent to the driver, also
\* when the type is not yet registered on its handle.
C5_UnknownFilterBeforeAnySql ==
    (/\ last.op = "filter"
     /\ \E k \in 1..Len(last.filters) : UnknownFilter(cfg, last.filters[k][1]))
    => (last.raised = "ValueError" /\ last.stmts = <<>>)

\* The instance get() returned has the data of the instance: field by field
\* the stored value, and the same key.
SameData(got, i) ==
    /\ \A k \in 1..Len(cfg.fields) : got[cfg.fields[k]] = DbValue(i[cfg.fields[k]])
    /\ got[_meta_pk(cfg)] = i[_meta_pk(cfg)]

\* C6: an instance of a type with a key that was saved successfully is
\* returned, field for field, by the get() on its key that follows.
C6_SaveThenGetByKey ==
    [][ (/\ last.op = "save" /\ last.raised = "none" /\ last.drv.ok
         /\ _meta_pk(cfg) # NoPk
         /\ last.ret = <<inst>>
         /\ last'.op = "get"
         /\ last'.filters = << <<_meta_pk(cfg), inst[_meta_pk(cfg)]>> >>
         /\ last'.handle = last.handle)
        => (/\ last'.raised = "none"
            /\ Len(last'.ret) = 1
            /\ SameData(last'.ret[1], inst)) ]_vars

\* C7: the registrar runs once for a handle: a call made while the type is
\* bound to a handle the registrar already ran for does not run it again.
C7_RegistrarOncePerHandle == last.called => ~last.known

\* C8: save() on a type without key and without unique constraint raises
\* instead of sending an INSERT.
C8_NoKeyNoUniqueRaises ==
    (last.op = "save" /\ _meta_pk(cfg) = NoPk /\ _meta_unique(cfg) = <<>>)
    => (last.raised # "none" /\ Sent({"INSERT", "UPSERT"}) = 0)

\* C9: after a save() that inserted a row, by whichever path, the instance
\* holds the key of that row.
C9_InsertPopulatesKey ==
    (/\ last.op = "save" /\ _meta_pk(cfg) # NoPk
     /\ last.drv.ok /\ Len(RowsNow) = Len(last.before) + 1)
    => (/\ last.self[1][_meta_pk(cfg)] # Null
        /\ \E i \in 1..Len(RowsNow) :
              /\ RowsNow[i][_meta_pk(cfg)] = last.self[1][_meta_pk(cfg)]
              /\ \A j \in 1..Len(last.before) : last.before[j] # RowsNow[i])

\* The columns and parameters C10 gives the UPDATE of the latest save().
StatedUpdateCols ==
    IF last.update_fields.given THEN last.update_fields.cols
    ELSE Without(Attrs(cfg), _meta_pk(cfg))

\* C10: an update by key writes exactly the columns of update_fields when
\* it is given, the empty list included, and all columns but the key when it
\* is not; it binds their values in that order and the key last, and leaves
\* every other column and every other row as they were.
C10_UpdateWritesUpdateFields ==
    (SavedWithKey /\ last.raised = "none") =>
        /\ Sent({"UPDATE"}) = 1
        /\ LET st == TheStmt({"UPDATE"})
           IN  /\ st.cols = StatedUpdateCols
               /\ st.params = [k \in 1..Len(st.cols) |-> SelfValue(st.cols[k])]
                                 \o <<last.key>>
        /\ Len(RowsNow) = Len(last.before)
        /\ \A i \in 1..Len(RowsNow) :
              \A col \in DOMAIN RowsNow[i] :
                  \/ RowsNow[i][col] = last.before[i][col]
                  \/ /\ last.before[i][_meta_pk(cfg)] = last.key
                     /\ Has(StatedUpdateCols, col)

====
